---- MODULE Spec2Model ----
(***************************************************************************)
(* The recipe assistant of src/streamlit_app.py: the session's message     *)
(* store, the sidebar widgets, and the query pipeline                      *)
(*   get_chat_history -> summarize_question_with_history -> retrieve ->    *)
(*   create_prompt -> generate_completion                                  *)
(* run by main() on every script run of the session.                       *)
(***************************************************************************)
EXTENDS Integers, Sequences, FiniteSets, TLC

\* ---------------------------------------------------------------- bounds
\* The longest message store the model lets a session build.
MaxTurns == 9
\* The most records of the index that can match one search.
MaxMatches == 4

\* ------------------------------------------------------ program constants
NUM_CHUNKS == 3
SLIDE_WINDOW == 7
COLUMNS == <<"chunk", "relative_path", "category">>

\* The sidebar's categories (the model keeps the default option, one more and "ALL").
Categories == {"Snacks", "MainCourse", "ALL"}
\* What the user can type into the chat input.
Queries == {"q1"}
\* What the completion service can answer.
Completions == {"r1"}

None == "None"
NoPrompt == [query |-> "", category |-> "", prompt_context |-> <<>>, chat_history |-> <<>>]

Max(a, b) == IF a >= b THEN a ELSE b
Min(a, b) == IF a <= b THEN a ELSE b

VARIABLES
    has_messages,       \* "messages" in st.session_state
    messages,           \* st.session_state.messages
    food_category,      \* st.session_state.food_category (selectbox)
    previous_category,  \* st.session_state.previous_category
    use_chat_history,   \* st.session_state.use_chat_history (checkbox)
    clear_conversation, \* st.session_state.clear_conversation (button, this run)
    pc,                 \* where the script run stands
    query,              \* the chat input of this run
    chat_history,       \* query(): chat_history
    rewrite_calls,      \* calls of summarize_question_with_history in this run
    question_summary,   \* query(): question_summary
    search_calls,       \* the requests sent to svc.search in this run
    matches,            \* records of the index matching the last search
    response_results,   \* response.results of the last search
    context_rag,        \* query(): context_rag
    relative_paths,     \* query(): relative_paths
    prompt,             \* query(): prompt
    completion,         \* query(): completion
    error               \* the exception that ended this run, if any

store == <<has_messages, messages>>
widgets == <<food_category, previous_category, use_chat_history, clear_conversation>>
run == <<query, chat_history, rewrite_calls, question_summary, search_calls, matches,
         response_results, context_rag, relative_paths, prompt, completion, error>>
vars == <<store, widgets, pc, run>>

\* ------------------------------------------------------------ the store
Turn(role, content) == [role |-> role, content |-> content]

welcome_message ==
    "Hi! I'm Ali, your personal chef friend!\nTell me what ingredients you have, and I'll help you whip up something delicious!"
WelcomeTurn == Turn("assistant", welcome_message)

category_message(c) ==
    "I see you've switched to **" \o c \o "**! Let's explore some new recipes!"

\* init_messages as it would be if it tested only for a missing store.
init_messages_ignores_clear(clear, has, msgs) ==
    IF ~has THEN <<WelcomeTurn>> ELSE msgs

\* init_messages as it would be without the append of the welcome turn.
init_messages_unseeded(clear, has, msgs) ==
    IF clear \/ ~has THEN <<>> ELSE msgs

\* init_messages(): the store after the call.
init_messages(clear, has, msgs) ==
    IF clear \/ ~has THEN <<WelcomeTurn>> ELSE msgs

\* The loop of get_chat_history: for i in range(i, stop): append messages[i]
\* (Python indexes from 0, the sequence from 1).
RECURSIVE range_loop(_, _, _, _)
range_loop(msgs, i, stop, acc) ==
    IF i >= stop THEN acc
    ELSE range_loop(msgs, i + 1, stop, Append(acc, msgs[i + 1]))

\* get_chat_history as it would be with the loop running to len(messages).
get_chat_history_to_end(has, msgs) ==
    IF ~has THEN <<>>
    ELSE LET start_index == Max(0, Len(msgs) - SLIDE_WINDOW)
         IN  range_loop(msgs, start_index, Len(msgs), <<>>)

\* get_chat_history as it would be with the window starting one turn earlier.
get_chat_history_early_start(has, msgs) ==
    IF ~has THEN <<>>
    ELSE LET start_index == Max(0, Len(msgs) - SLIDE_WINDOW - 1)
         IN  range_loop(msgs, start_index, Len(msgs) - 1, <<>>)

get_chat_history(has, msgs) ==
    IF ~has THEN <<>>
    ELSE LET start_index == Max(0, Len(msgs) - SLIDE_WINDOW)
         IN  range_loop(msgs, start_index, Len(msgs) - 1, <<>>)

\* main() as it would be if the question were not stored before the pipeline.
AppendUserTurn_skipped(msgs, q) == msgs
\* main() as it would be if answers were inserted at the head of the store.
AppendAssistantTurn_at_head(msgs, r) == <<Turn("assistant", r)>> \o msgs

\* main(): the appends to the store.
AppendUserTurn(msgs, q) == Append(msgs, Turn("user", q))
AppendAssistantTurn(msgs, r) == Append(msgs, Turn("assistant", r))

\* main() from configure_sidebar to the chat input: init_messages, then the
\* category-switch notice.
CategorySwitched(prev, cur) == prev # None /\ cur # prev
MainPrologue(clear, has, msgs, prev, cur) ==
    LET m1 == init_messages(clear, has, msgs)
    IN  IF CategorySwitched(prev, cur)
        THEN AppendAssistantTurn(m1, category_message(cur))
        ELSE m1

\* ------------------------------------------------------------- retrieval
\* The arguments RAG_class.retrieve passes to svc.search: no filter for
\* "ALL", otherwise {"@eq": {"category": category}}; always limit=NUM_CHUNKS.
EqPredicate(field, value) == [op |-> "@eq", field |-> field, value |-> value]
\* The filter as it would be if "ALL" were filtered on like any category.
SearchFilter_always(category) == {EqPredicate("category", category)}
SearchFilter(category) ==
    IF category = "ALL" THEN {} ELSE {EqPredicate("category", category)}
\* The limit as it would be if one record more were asked for.
SearchLimit_one_more == NUM_CHUNKS + 1
SearchLimit == NUM_CHUNKS
svc_search_args(q, category) ==
    [query |-> q, columns |-> COLUMNS, filter |-> SearchFilter(category),
     limit |-> SearchLimit]

\* The search service: of the m records that match, the first `limit`.
\* Two chunks come from each document.
IndexRecord(i, request) ==
    [chunk |-> i, relative_path |-> (i + 1) \div 2,
     category |-> IF request.filter = {} THEN "ALL"
                  ELSE (CHOOSE p \in request.filter : TRUE).value]
svc_search(request, m) ==
    [i \in 1..Min(request.limit, m) |-> IndexRecord(i, request)]

\* RAG_class.retrieve after the search call: with results, the chunks and the
\* set of their paths; with none, the else branch returns retrieved_chunks,
\* a local that was never assigned, which raises UnboundLocalError.
retrieve(results) ==
    IF results # <<>>
    THEN [raised |-> FALSE,
          retrieved_chunks |-> [i \in 1..Len(results) |-> results[i].chunk],
          relative_paths |-> {results[i].relative_path : i \in 1..Len(results)}]
    ELSE [raised |-> TRUE, retrieved_chunks |-> <<>>, relative_paths |-> {}]

\* ---------------------------------------------------------- the pipeline
\* RAG_class.query: the rewrite runs when history is in use and not empty,
\* and retrieval then gets the rewritten question.
NeedsRewrite(use, history) == use /\ history # <<>>
\* query() as it would be if retrieval always got the raw question.
RetrieveArg_raw(use, history, q, summary) == q
RetrieveArg(use, history, q, summary) ==
    IF NeedsRewrite(use, history) THEN summary ELSE q

\* RAG_class.create_prompt: the fields the template is filled with (the
\* default chat_history, "", is the empty sequence here).
create_prompt(q, category, prompt_context, history) ==
    [query |-> q, category |-> category, prompt_context |-> prompt_context,
     chat_history |-> history]

\* ------------------------------------------------------------------ Init
RunInit ==
    /\ query = ""
    /\ chat_history = <<>>
    /\ rewrite_calls = 0
    /\ question_summary = ""
    /\ search_calls = <<>>
    /\ matches = -1
    /\ response_results = <<>>
    /\ context_rag = <<>>
    /\ relative_paths = {}
    /\ prompt = NoPrompt
    /\ completion = ""
    /\ error = "none"

\* A new session, before the script has run: no store yet, the widgets at
\* their defaults.
Init ==
    /\ has_messages = FALSE
    /\ messages = <<>>
    /\ food_category = "Snacks"
    /\ previous_category = None
    /\ use_chat_history = TRUE
    /\ clear_conversation = FALSE
    /\ pc = "AwaitingQuery"
    /\ RunInit

\* A script run starts with the locals of the last one gone.
RunReset ==
    /\ query' = ""
    /\ chat_history' = <<>>
    /\ rewrite_calls' = 0
    /\ question_summary' = ""
    /\ search_calls' = <<>>
    /\ matches' = -1
    /\ response_results' = <<>>
    /\ context_rag' = <<>>
    /\ relative_paths' = {}
    /\ prompt' = NoPrompt
    /\ completion' = ""
    /\ error' = "none"

\* No script run is in progress.
Idle == pc \in {"AwaitingQuery", "Errored"}

\* main() with no chat input: lines 319-351.
RunMain(clear, has, msgs, cat) ==
    /\ has_messages' = TRUE
    /\ messages' = MainPrologue(clear, has, msgs, previous_category, cat)
    /\ food_category' = cat
    /\ previous_category' = cat
    /\ clear_conversation' = clear
    /\ pc' = "AwaitingQuery"
    /\ RunReset

\* The page is loaded or rerun with no widget changed.
Rerun ==
    /\ Idle
    /\ RunMain(FALSE, has_messages, messages, food_category)
    /\ UNCHANGED use_chat_history

\* The user picks a category in the sidebar.
SelectCategory ==
    /\ Idle /\ has_messages
    /\ Len(messages) < MaxTurns
    /\ \E c \in Categories \ {food_category} :
          RunMain(FALSE, has_messages, messages, c)
    /\ UNCHANGED use_chat_history

\* The user ticks or unticks "Remember chat history?".
ToggleHistory ==
    /\ Idle /\ has_messages
    /\ use_chat_history' = ~use_chat_history
    /\ RunMain(FALSE, has_messages, messages, food_category)

\* "Start Over": the button's on_click callback init_messages runs with
\* clear_conversation set, then the script runs with it still set.
StartOver ==
    /\ Idle /\ has_messages
    /\ RunMain(TRUE, TRUE, init_messages(TRUE, has_messages, messages), food_category)
    /\ UNCHANGED use_chat_history

\* The user submits a question: lines 319-357, up to the call of query().
SubmitQuery ==
    /\ Idle /\ has_messages
    /\ Len(messages) + 2 <= MaxTurns
    /\ \E q \in Queries :
          /\ messages' = AppendUserTurn(
                 MainPrologue(FALSE, has_messages, messages, previous_category,
                              food_category), q)
          /\ query' = q
    /\ previous_category' = food_category
    /\ clear_conversation' = FALSE
    /\ pc' = "Windowing"
    /\ chat_history' = <<>>
    /\ rewrite_calls' = 0
    /\ question_summary' = ""
    /\ search_calls' = <<>>
    /\ matches' = -1
    /\ response_results' = <<>>
    /\ context_rag' = <<>>
    /\ relative_paths' = {}
    /\ prompt' = NoPrompt
    /\ completion' = ""
    /\ error' = "none"
    /\ UNCHANGED <<has_messages, food_category, use_chat_history>>

\* query(), lines 258-261: the history window, read only when history is in use.
Window ==
    /\ pc = "Windowing"
    /\ chat_history' = IF use_chat_history
                       THEN get_chat_history(has_messages, messages) ELSE <<>>
    /\ pc' = IF NeedsRewrite(use_chat_history, chat_history')
             THEN "Rewriting" ELSE "Retrieving"
    /\ UNCHANGED <<store, widgets, query, rewrite_calls, question_summary,
                   search_calls, matches, response_results, context_rag,
                   relative_paths, prompt, completion, error>>

\* summarize_question_with_history: one completion call, whose text is the
\* rewritten question.
Rewrite ==
    /\ pc = "Rewriting"
    /\ rewrite_calls' = rewrite_calls + 1
    /\ \E s \in Completions :
          /\ question_summary' = s
          /\ pc' = "Retrieving"
    /\ UNCHANGED <<store, widgets, query, chat_history, search_calls, matches,
                   response_results, context_rag, relative_paths, prompt,
                   completion, error>>

\* The completion call of the rewrite raises.
RewriteFails ==
    /\ pc = "Rewriting"
    /\ rewrite_calls' = rewrite_calls + 1
    /\ pc' = "Errored"
    /\ error' = "CompletionError"
    /\ UNCHANGED <<store, widgets, query, chat_history, question_summary,
                   search_calls, matches, response_results, context_rag,
                   relative_paths, prompt, completion>>

\* RAG_class.retrieve: the search answers with the first records that match.
Retrieve ==
    /\ pc = "Retrieving"
    /\ LET request == svc_search_args(
                          RetrieveArg(use_chat_history, chat_history, query,
                                      question_summary), food_category)
       IN  /\ search_calls' = Append(search_calls, request)
           /\ \E m \in 0..MaxMatches :
                 LET results == svc_search(request, m)
                     out == retrieve(results)
                 IN  /\ matches' = m
                     /\ response_results' = results
                     /\ IF out.raised
                        THEN /\ pc' = "Errored"
                             /\ error' = "UnboundLocalError"
                             /\ UNCHANGED <<context_rag, relative_paths>>
                        ELSE /\ pc' = "Building"
                             /\ context_rag' = out.retrieved_chunks
                             /\ relative_paths' = out.relative_paths
                             /\ UNCHANGED error
    /\ UNCHANGED <<store, widgets, query, chat_history, rewrite_calls,
                   question_summary, prompt, completion>>

\* svc.search raises (the service cannot be reached).
SearchFails ==
    /\ pc = "Retrieving"
    /\ search_calls' = Append(search_calls,
           svc_search_args(RetrieveArg(use_chat_history, chat_history, query,
                                       question_summary), food_category))
    /\ pc' = "Errored"
    /\ error' = "SearchError"
    /\ UNCHANGED <<store, widgets, query, chat_history, rewrite_calls,
                   question_summary, matches, response_results, context_rag,
                   relative_paths, prompt, completion>>

\* query(), lines 266/271/275: the prompt.
Build ==
    /\ pc = "Building"
    /\ prompt' = create_prompt(query, food_category, context_rag, chat_history)
    /\ pc' = "Completing"
    /\ UNCHANGED <<store, widgets, query, chat_history, rewrite_calls,
                   question_summary, search_calls, matches, response_results,
                   context_rag, relative_paths, completion, error>>

\* generate_completion returns; query() returns (completion, relative_paths).
Complete ==
    /\ pc = "Completing"
    /\ \E r \in Completions : completion' = r
    /\ pc' = "Done"
    /\ UNCHANGED <<store, widgets, query, chat_history, rewrite_calls,
                   question_summary, search_calls, matches, response_results,
                   context_rag, relative_paths, prompt, error>>

\* generate_completion raises.
CompleteFails ==
    /\ pc = "Completing"
    /\ pc' = "Errored"
    /\ error' = "CompletionError"
    /\ UNCHANGED <<store, widgets, query, chat_history, rewrite_calls,
                   question_summary, search_calls, matches, response_results,
                   context_rag, relative_paths, prompt, completion>>

\* main(), lines 367-369: the answer is shown and appended to the store.
Respond ==
    /\ pc = "Done"
    /\ messages' = AppendAssistantTurn(messages, completion)
    /\ pc' = "AwaitingQuery"
    /\ UNCHANGED <<has_messages, widgets, run>>

Next ==
    \/ Rerun
    \/ SelectCategory
    \/ ToggleHistory
    \/ StartOver
    \/ SubmitQuery
    \/ Window
    \/ Rewrite
    \/ RewriteFails
    \/ Retrieve
    \/ SearchFails
    \/ Build
    \/ Complete
    \/ CompleteFails
    \/ Respond

Spec == Init /\ [][Next]_vars

\* ------------------------------------------------------------ properties
\* Python's s[a:b] (a, b integers; a negative index counts from the end).
PyIndex(x, n) == IF x < 0 THEN Max(0, x + n) ELSE Min(x, n)
PySlice(s, a, b) == SubSeq(s, PyIndex(a, Len(s)) + 1, PyIndex(b, Len(s)))

IsPrefix(s, t) == Len(s) <= Len(t) /\ SubSeq(t, 1, Len(s)) = s

\* The run has a question and is past the history window / past the rewrite.
Windowed == query # "" /\ pc # "Windowing"
PastRewrite == Windowed /\ pc # "Rewriting"
\* The run is inside query(), past the window, with the store as query() saw it.
InQuery == pc \in {"Rewriting", "Retrieving", "Building", "Completing", "Done", "Errored"}

\* C1: when the search reports zero results, retrieve does not raise: it
\* returns an empty passage list and an empty set of source ids, and query()
\* goes on to the prompt and the completion.
C1_ZeroResultsDoNotRaise ==
    matches = 0 =>
        /\ error # "UnboundLocalError"
        /\ pc \in {"Building", "Completing", "Done", "AwaitingQuery"}
              \/ (pc = "Errored" /\ error = "CompletionError")
        /\ context_rag = <<>>
        /\ relative_paths = {}

\* C2 as stated: get_chat_history returns max(0, min(W, N-1)) turns.
C2_WindowHoldsMinWNMinus1 ==
    has_messages =>
        Len(get_chat_history(has_messages, messages))
            = Max(0, Min(SLIDE_WINDOW, Len(messages) - 1))

\* C2 as amended: for every store length N, get_chat_history returns
\* max(0, min(W-1, N-1)) turns, the ones right before the most recent entry,
\* which it never includes; the window query() works with has that length.
C2_WindowHoldsMinWMinus1NMinus1 ==
    /\ has_messages =>
          LET h == get_chat_history(has_messages, messages)
              N == Len(messages)
          IN  /\ Len(h) = Max(0, Min(SLIDE_WINDOW - 1, N - 1))
              /\ \A i \in 1..Len(h) : h[i] = messages[N - 1 - Len(h) + i]
    /\ (InQuery /\ use_chat_history) =>
          Len(chat_history) = Max(0, Min(SLIDE_WINDOW - 1, Len(messages) - 1))
C2_Witness ==
    /\ pc = "Rewriting"
    /\ Len(messages) > SLIDE_WINDOW
    /\ Len(chat_history) = SLIDE_WINDOW - 1

\* C3: when the search call raises, the store is left as it was when the
\* pipeline started: its last turn is the user's question, no assistant turn
\* is appended, and the earlier turns are unchanged.
C3_SearchErrorKeepsQuestion ==
    [][(error' = "SearchError" /\ error # "SearchError") =>
          /\ has_messages'
          /\ messages' = messages
          /\ messages'[Len(messages')] = Turn("user", query')
          /\ pc' = "Errored"]_vars
C3_Witness ==
    /\ pc = "Errored" /\ error = "SearchError"
    /\ Len(messages) >= 4
    /\ messages[Len(messages)] = Turn("user", query)

\* C4: the rewrite is called (once) exactly when history is in use and the
\* window is not empty; retrieval is then called with the rewritten question,
\* and otherwise with the raw question and no rewrite call.
C4_RewriteIffHistory ==
    (InQuery /\ pc # "Rewriting" /\ ~(pc = "Errored" /\ search_calls = <<>>)) =>
        LET N == Len(messages)
            window == PySlice(messages, Max(0, N - SLIDE_WINDOW), N - 1)
            wanted == use_chat_history /\ window # <<>>
        IN  /\ rewrite_calls = (IF wanted THEN 1 ELSE 0)
            /\ \A i \in 1..Len(search_calls) :
                  search_calls[i].query = (IF wanted THEN question_summary ELSE query)
            /\ pc # "Retrieving" => Len(search_calls) = 1
C4_Witness ==
    /\ pc = "Building"
    /\ rewrite_calls = 1
    /\ search_calls[1].query = question_summary
    /\ question_summary # query

\* C5: the search carries no filter for "ALL" and, for any other category,
\* exactly one predicate: equality on the category field with that value.
C5_FilterByCategory ==
    \A i \in 1..Len(search_calls) :
        LET f == search_calls[i].filter
        IN  /\ food_category = "ALL" => f = {}
            /\ food_category # "ALL" =>
                  /\ Cardinality(f) = 1
                  /\ \A p \in f : /\ p.op = "@eq"
                                  /\ p.field = "category"
                                  /\ p.value = food_category
C5_Witness ==
    /\ search_calls # <<>>
    /\ food_category = "ALL"
    /\ search_calls[1].filter = {}
    /\ response_results # <<>>

C7_WindowIsSlice ==
    [][LET h == get_chat_history(has_messages, messages)
           N == Len(messages)
           slice == PySlice(messages, Max(0, N - SLIDE_WINDOW), N - 1)
       IN  /\ has_messages => h = slice
           /\ (~has_messages \/ N <= 1) => h = <<>>
           /\ pc = "Windowing" =>
                 /\ store' = store
                 /\ use_chat_history => chat_history' = slice]_vars
C7_Witness ==
    /\ pc = "Rewriting"
    /\ Len(messages) > SLIDE_WINDOW
    /\ chat_history = SubSeq(messages, Len(messages) - SLIDE_WINDOW + 1,
                             Len(messages) - 1)
    /\ chat_history[1] # messages[1]

\* C8: "Start Over" leaves the store holding the welcome turn alone,
\* whatever it held; init_messages without a reset leaves an existing store
\* as it is.
C8_ResetReseeds ==
    [][/\ clear_conversation' => messages' = <<WelcomeTurn>>
       /\ (has_messages /\ ~clear_conversation' /\ pc' = "AwaitingQuery"
              /\ pc # "Done" /\ food_category' = food_category)
             => messages' = messages
       /\ has_messages => init_messages(FALSE, has_messages, messages) = messages]_vars
C8_Witness ==
    /\ clear_conversation
    /\ messages = <<WelcomeTurn>>
    /\ pc = "AwaitingQuery"

\* C9: but for a reset the store only grows at its end: the store before a
\* step is a prefix of the store after it, and an answer is appended right
\* after the question it answers.
C9_AppendOnly ==
    [][/\ (has_messages /\ ~(clear_conversation' /\ pc' = "AwaitingQuery" /\ pc # "Done"))
             => IsPrefix(messages, messages')
       /\ (pc = "Done" /\ pc' # "Done") =>
             /\ messages[Len(messages)] = Turn("user", query)
             /\ messages' = Append(messages, Turn("assistant", completion))]_vars
C9_Witness ==
    /\ pc = "AwaitingQuery"
    /\ Len(messages) >= 5
    /\ messages[Len(messages) - 1] = Turn("user", query)
    /\ messages[Len(messages)] = Turn("assistant", completion)
    /\ completion # ""

\* C10: once init_messages has run the store is not empty and starts with
\* the welcome turn; so a question asked with history in use always has a
\* non-empty window and is rewritten, and the rewrite is skipped only when
\* history is not in use.
C10_WelcomeFirst ==
    /\ has_messages => (Len(messages) >= 1 /\ messages[1] = WelcomeTurn)
    /\ (Windowed /\ use_chat_history) => chat_history # <<>>
    /\ (PastRewrite /\ use_chat_history) => rewrite_calls = 1
    /\ (PastRewrite /\ rewrite_calls = 0) => ~use_chat_history
C10_Witness ==
    /\ pc = "Retrieving"
    /\ use_chat_history
    /\ Len(messages) = 2
    /\ chat_history = <<WelcomeTurn>>
    /\ rewrite_calls = 1

====
